---- MODULE Spec2Model ----
(***************************************************************************)
(* Cart / inventory consistency of the online-store backend.               *)
(*                                                                         *)
(* Every request handler is an async function: it runs atomically between  *)
(* two awaits, and the event loop interleaves the handlers of concurrent   *)
(* requests at every await.  A request in flight is a record of procs: its *)
(* operation (op), the await it is suspended at (pc) and its locals.       *)
(* Money is counted in cents.                                              *)
(***************************************************************************)
EXTENDS Integers, Sequences, FiniteSets, TLC

VARIABLES
  products,   \* the Product collection: productId -> document
  orders,     \* the Order collection, in insertion order (_id = index)
  redis,      \* the cart store: identifier -> <<>> (no key) or <<cart>>
  ttl,        \* remaining lifetime of each cart key, in seconds
  age,        \* history: seconds since each cart key was last written
  procs,      \* the requests in flight
  requests,   \* number of requests received so far
  pre,        \* history: the stores as the last request received found them
  serial      \* whether requests are received one at a time

vars == <<products, orders, redis, ttl, age, procs, requests, pre, serial>>

\* what only the reception of a request changes
reception == <<requests, pre, serial>>

----------------------------------------------------------------------------
(* Bounds of the model *)

Products == {"A", "B"}
UnknownProducts == {"X"}   \* a well-formed id no product document has
Users == {"u1", "u2"}
Sessions == {"s1"}
Identifiers == Users \cup Sessions
Procs == 1..2

InitStock == 2     \* stock of every product when the store opens
MaxQty == 2        \* largest quantity a single request names
MaxRequests == 3   \* requests received in one run
TicksPerTTL == 2   \* steps of the clock in the lifetime of a cart key

----------------------------------------------------------------------------
(* Program constants *)

CartTTL == 3600             \* seconds a cart key lives after a write
FreeShippingMin == 50000    \* subtotal (cents) from which shipping is free
ShippingFee == 2999         \* standard shipping fee (cents)
TaxPercent == 20            \* VAT

----------------------------------------------------------------------------
(* Data shapes *)

RECURSIVE SumSeq(_)
SumSeq(s) == IF s = <<>> THEN 0 ELSE Head(s) + SumSeq(Tail(s))

\* productSchema.virtual("finalPrice")
finalPrice(product) ==
  IF product.discountPrice # 0 THEN product.discountPrice ELSE product.price

\* the catalog the store opens with
Catalog ==
  [p \in Products |->
     [stock |-> InitStock,
      isActive |-> TRUE,
      price |-> IF p = "A" THEN 30000 ELSE 10000,
      discountPrice |-> IF p = "A" THEN 25000 ELSE 0]]

\* the empty cart object built by getCart and clearCart
emptyCart == [items |-> <<>>, totalAmount |-> 0, totalItems |-> 0]

\* totalItems as the number of lines instead of the sum of their quantities
calculateCartTotals_countLines(cart) ==
  [cart EXCEPT
     !.totalItems = Len(cart.items),
     !.totalAmount = SumSeq([k \in 1..Len(cart.items) |->
                               cart.items[k].price * cart.items[k].quantity])]

\* CartService.calculateCartTotals
calculateCartTotals(cart) ==
  [cart EXCEPT
     !.totalItems = SumSeq([k \in 1..Len(cart.items) |-> cart.items[k].quantity]),
     !.totalAmount = SumSeq([k \in 1..Len(cart.items) |->
                               cart.items[k].price * cart.items[k].quantity])]

\* no line is ever found
findIndex_notFound(items, productId) == 0

\* cart.items.findIndex(item => item.product.toString() === productId); 0 for -1
findIndex(items, productId) ==
  IF \E k \in 1..Len(items) : items[k].product = productId
  THEN CHOOSE k \in 1..Len(items) :
         /\ items[k].product = productId
         /\ \A j \in 1..(k - 1) : items[j].product # productId
  ELSE 0

\* shipping is free only above the threshold
calculateShipping_above(subtotal) ==
  IF subtotal > FreeShippingMin THEN 0 ELSE ShippingFee

\* OrderService.calculateShipping
calculateShipping(subtotal) ==
  IF subtotal >= FreeShippingMin THEN 0 ELSE ShippingFee

\* OrderService.calculateTax
calculateTax(subtotal) == (subtotal * TaxPercent) \div 100

\* new Order({...}) as createOrder builds it; status and payment.status take
\* the schema defaults
NewOrder(userId, orderItems, subtotal) ==
  [user |-> userId,
   items |-> orderItems,
   paymentStatus |-> "pending",
   status |-> "pending",
   statusHistory |-> <<>>,
   subtotal |-> subtotal,
   shippingCost |-> calculateShipping(subtotal),
   tax |-> calculateTax(subtotal),
   total |-> subtotal + calculateShipping(subtotal) + calculateTax(subtotal),
   deliveredAt |-> FALSE,
   cancelledAt |-> FALSE,
   cancelledReason |-> ""]

----------------------------------------------------------------------------
(* Requests *)

\* no product document read yet
NoProduct == [stock |-> 0, isActive |-> FALSE, price |-> 0, discountPrice |-> 0]

Idle ==
  [op |-> "idle", pc |-> "idle", identifier |-> "", productId |-> "",
   quantity |-> 0, cart |-> emptyCart, i |-> 0, orderItems |-> <<>>,
   subtotal |-> 0, orderId |-> 0, newStock |-> 0, error |-> "",
   product |-> NoProduct, sessionId |-> "", phase |-> "",
   status |-> "", note |-> "", reason |-> ""]

\* the locals of a request as its handler is entered
NewRequest(op, pc) == [Idle EXCEPT !.op = op, !.pc = pc]

\* the handler returns its success payload
Succeed(r) == [r EXCEPT !.pc = "done"]

\* the handler throws new Error(message); CartController.mergeCart catches
\* what the services throw and answers 500 'Cart merge error'
Throw(r, message) ==
  [r EXCEPT !.pc = "failed",
            !.error = IF r.op = "mergeCart" THEN "Cart merge error" ELSE message]

Finished(p) == procs[p].pc \in {"done", "failed"}

\* orderSchema.pre("save", function (next) { ... }): the hook fills in
\* orderNumber and returns without calling next(); a save whose middleware
\* waits for next() stays pending, and so does the request awaiting it
preSave(r) == [r EXCEPT !.pc = "preSave"]

\* the stores as a request finds them
Snapshot == [products |-> products, orders |-> orders, redis |-> redis]

\* a request is received and takes request slot p, the first free one; when
\* requests are served one at a time, none is in flight and pre is what the
\* request finds
Admit(p) ==
  /\ requests < MaxRequests
  /\ procs[p].op = "idle"
  /\ \A q \in Procs : procs[q].op = "idle" => p <= q
  /\ serial => \A q \in Procs : procs[q].op = "idle"
  /\ requests' = requests + 1
  /\ pre' = IF serial THEN Snapshot ELSE pre
  /\ UNCHANGED serial

\* the response is sent and the request is over
Return(p) ==
  /\ Finished(p)
  /\ procs' = [procs EXCEPT ![p] = Idle]
  /\ UNCHANGED <<products, orders, redis, ttl, age, reception>>

----------------------------------------------------------------------------
(* ProductService.updateStock, called by the stock endpoint, by createOrder *)
(* (negative amounts) and by cancelOrder (positive amounts)                 *)

\* only decrements are applied
updateStock_newStock_decrementsOnly(stock, quantity) ==
  IF quantity < 0 THEN stock + quantity ELSE stock

\* product.stock + quantity
updateStock_newStock(stock, quantity) == stock + quantity

\* the check of newStock left out
updateStock_insufficient_unchecked(newStock) == FALSE

\* if (newStock < 0) throw new Error('Insufficient stock')
updateStock_insufficient(newStock) == newStock < 0

\* what the caller does once updateStock has returned
AfterUpdateStock(r) ==
  CASE r.op = "updateStock" -> Succeed(r)
    [] r.op = "createOrder" ->
         IF r.i < Len(r.orderItems)
         THEN [r EXCEPT !.i = r.i + 1,
                        !.productId = r.orderItems[r.i + 1].product,
                        !.quantity = 0 - r.orderItems[r.i + 1].quantity,
                        !.pc = "us_findById"]
         ELSE [r EXCEPT !.pc = "co_clearCart"]
    [] r.op = "cancelOrder" ->
         IF r.i < Len(r.orderItems)
         THEN [r EXCEPT !.i = r.i + 1,
                        !.productId = r.orderItems[r.i + 1].product,
                        !.quantity = r.orderItems[r.i + 1].quantity,
                        !.pc = "us_findById"]
         ELSE [r EXCEPT !.pc = "ca_save"]

\* PATCH /api/products/:id/stock
StartUpdateStock(p, productId, quantity) ==
  /\ Admit(p)
  /\ procs' = [procs EXCEPT ![p] =
       [NewRequest("updateStock", "us_findById") EXCEPT
                    !.productId = productId, !.quantity = quantity]]
  /\ UNCHANGED <<products, orders, redis, ttl, age>>

\* const product = await Product.findById(productId), then the check of
\* newStock, up to the await of product.save()
UpdateStock_findById(p) ==
  LET r == procs[p]
      newStock == updateStock_newStock(products[r.productId].stock, r.quantity)
  IN /\ r.pc = "us_findById"
     /\ procs' = [procs EXCEPT ![p] =
          IF updateStock_insufficient(newStock)
          THEN Throw(r, "Insufficient stock")
          ELSE [r EXCEPT !.pc = "us_save", !.newStock = newStock]]
     /\ UNCHANGED <<products, orders, redis, ttl, age, reception>>

\* product.stock = newStock; await product.save(): the document's modified
\* path is written as it is, whatever the stored value has become
UpdateStock_save(p) ==
  LET r == procs[p]
  IN /\ r.pc = "us_save"
     /\ products' = [products EXCEPT ![r.productId].stock = r.newStock]
     /\ procs' = [procs EXCEPT ![p] = AfterUpdateStock(r)]
     /\ UNCHANGED <<orders, redis, ttl, age, reception>>

\* ProductService.deleteProduct: the soft delete
DeleteProduct(productId) ==
  /\ products[productId].isActive
  /\ products' = [products EXCEPT ![productId].isActive = FALSE]
  /\ UNCHANGED <<orders, redis, ttl, age, procs, reception>>

\* ProductService.updateProduct with new prices in updateData: Object.assign
\* and product.save()
UpdateProduct(productId, price, discountPrice) ==
  /\ products[productId].price # price
       \/ products[productId].discountPrice # discountPrice
  /\ products' = [products EXCEPT ![productId].price = price,
                                  ![productId].discountPrice = discountPrice]
  /\ UNCHANGED <<orders, redis, ttl, age, procs, reception>>

----------------------------------------------------------------------------
(* CartService: addToCart, updateCartItem, removeFromCart, clearCart, and   *)
(* CartController.mergeCart                                                 *)

\* await Product.findById(productId): <<>> for null, else <<document>>
findById(productId) ==
  IF productId \in DOMAIN products THEN <<products[productId]>> ELSE <<>>

\* the check of isActive left out
addToCart_unavailable_missingOnly(found) == found = <<>>

\* !product || !product.isActive
addToCart_unavailable(found) == found = <<>> \/ ~found[1].isActive

\* no stock check
addToCart_insufficient_unchecked(product, quantity) == FALSE

\* product.stock < quantity, product.stock < newQuantity
addToCart_insufficient(product, quantity) == product.stock < quantity

\* the line priced at the list price, discount ignored
addToCart_newItem_listPrice(productId, product, quantity) ==
  [product |-> productId, price |-> product.price, quantity |-> quantity]

\* the cart line pushed for a product not yet in the cart
addToCart_newItem(productId, product, quantity) ==
  [product |-> productId, price |-> finalPrice(product), quantity |-> quantity]

\* addToCart from the return of getCart to the await of saveCartToRedis
addToCart_afterGetCart(r) ==
  LET existingItemIndex == findIndex(r.cart.items, r.productId)
      newQuantity == r.cart.items[existingItemIndex].quantity + r.quantity
  IN IF existingItemIndex > 0
     THEN IF addToCart_insufficient(r.product, newQuantity)
          THEN Throw(r, "Insufficient stock")
          ELSE [r EXCEPT
                  !.cart = calculateCartTotals(
                     [r.cart EXCEPT !.items[existingItemIndex].quantity = newQuantity]),
                  !.pc = "saveCart"]
     ELSE [r EXCEPT
             !.cart = calculateCartTotals(
                [r.cart EXCEPT !.items =
                   Append(r.cart.items,
                          addToCart_newItem(r.productId, r.product, r.quantity))]),
             !.pc = "saveCart"]

\* cart.items.splice(itemIndex, 1)
splice(items, itemIndex) ==
  SubSeq(items, 1, itemIndex - 1) \o SubSeq(items, itemIndex + 1, Len(items))

\* the first line is dropped, whatever its product
filterOut_dropHead(items, productId) ==
  IF items = <<>> THEN <<>> ELSE Tail(items)

\* cart.items.filter(item => item.product.toString() !== productId)
RECURSIVE filterOut(_, _)
filterOut(items, productId) ==
  IF items = <<>> THEN <<>>
  ELSE IF Head(items).product = productId
       THEN filterOut(Tail(items), productId)
       ELSE <<Head(items)>> \o filterOut(Tail(items), productId)

\* the stock check left out
updateCartItem_insufficient_unchecked(found, quantity) == FALSE

\* product && product.stock < quantity
updateCartItem_insufficient(found, quantity) ==
  found # <<>> /\ found[1].stock < quantity

\* the line is never removed
updateCartItem_removes_never(quantity) == FALSE

\* if (quantity <= 0): the line is removed
updateCartItem_removes(quantity) == quantity <= 0

\* updateCartItem from the return of getCart to its next await
updateCartItem_afterGetCart(r) ==
  LET itemIndex == findIndex(r.cart.items, r.productId)
  IN IF itemIndex = 0
     THEN Throw(r, "Product not found in cart")
     ELSE IF updateCartItem_removes(r.quantity)
     THEN [r EXCEPT
             !.cart = calculateCartTotals(
                [r.cart EXCEPT !.items = splice(r.cart.items, itemIndex)]),
             !.pc = "saveCart"]
     ELSE [r EXCEPT !.i = itemIndex, !.pc = "uci_findById"]

\* removeFromCart from the return of getCart to the await of saveCartToRedis
removeFromCart_afterGetCart(r) ==
  [r EXCEPT
     !.cart = calculateCartTotals(
        [r.cart EXCEPT !.items = filterOut(r.cart.items, r.productId)]),
     !.pc = "saveCart"]

\* one unit of each line of the session cart is added
mergeCart_addItem_one(r, i) ==
  [r EXCEPT !.phase = "add", !.i = i,
            !.productId = r.orderItems[i].product,
            !.quantity = 1,
            !.pc = "atc_findById"]

\* mergeCart enters addToCart(req.user._id, item.product, item.quantity) for
\* line i of the session cart
mergeCart_addItem(r, i) ==
  [r EXCEPT !.phase = "add", !.i = i,
            !.productId = r.orderItems[i].product,
            !.quantity = r.orderItems[i].quantity,
            !.pc = "atc_findById"]

\* mergeCart enters the final getCart(req.user._id)
mergeCart_getUpdatedCart(r) ==
  [r EXCEPT !.phase = "updated", !.pc = "getCart_get"]

\* mergeCart from the return of a getCart to its next await; the lines of the
\* session cart are kept in orderItems
mergeCart_afterGetCart(r) ==
  CASE r.phase = "session" ->
         IF Len(r.cart.items) > 0
         THEN mergeCart_addItem([r EXCEPT !.orderItems = r.cart.items], 1)
         ELSE mergeCart_getUpdatedCart(r)
    [] r.phase = "add" -> addToCart_afterGetCart(r)
    [] r.phase = "updated" -> Succeed(r)

\* the cart key a request reads or writes at this point: the session's while
\* mergeCart reads and clears the session cart, else the identifier's (in
\* mergeCart, req.user._id)
CartKey(r) ==
  IF r.op = "mergeCart" /\ r.phase \in {"session", "clear"}
  THEN r.sessionId ELSE r.identifier

----------------------------------------------------------------------------
(* The cart store: keys written by setex(redisKey, 3600, ...) *)

\* the lifetime the key had is kept
setex_seconds_kept(remaining) == remaining

\* the lifetime of a key after setex(redisKey, 3600, value), whatever
\* lifetime it had left
setex_seconds(remaining) == CartTTL

\* only the lines are replaced, the totals of the stored cart stay
setex_value_itemsOnly(stored, cart) ==
  IF stored = <<>> THEN <<cart>> ELSE <<[stored[1] EXCEPT !.items = cart.items]>>

\* the value of a key after setex(redisKey, 3600, JSON.stringify(cart)),
\* whatever value it had: the one string replaces it
setex_value(stored, cart) == <<cart>>

\* seconds between two steps of the clock
TickSeconds == CartTTL \div TicksPerTTL

\* TickSeconds pass: the store removes the keys whose lifetime has run out
Tick ==
  /\ \E id \in Identifiers : redis[id] # <<>>
  /\ ttl' = [id \in Identifiers |->
              IF ttl[id] > TickSeconds THEN ttl[id] - TickSeconds ELSE 0]
  /\ age' = [id \in Identifiers |->
              IF redis[id] = <<>> THEN age[id] ELSE age[id] + TickSeconds]
  /\ redis' = [id \in Identifiers |->
                IF ttl[id] > TickSeconds THEN redis[id] ELSE <<>>]
  /\ UNCHANGED <<products, orders, procs, reception>>

----------------------------------------------------------------------------
(* CartService.getCart, as every cart and order operation calls it *)

\* what the caller does, up to its next await, once getCart has returned
AfterGetCart(r) ==
  CASE r.op = "createOrder" ->
         IF Len(r.cart.items) = 0
         THEN Throw(r, "Cart is empty")
         ELSE [r EXCEPT !.pc = "co_findById", !.i = 1]
    [] r.op = "getCart" -> Succeed(r)
    [] r.op = "addToCart" -> addToCart_afterGetCart(r)
    [] r.op = "updateCartItem" -> updateCartItem_afterGetCart(r)
    [] r.op = "removeFromCart" -> removeFromCart_afterGetCart(r)
    [] r.op = "mergeCart" -> mergeCart_afterGetCart(r)

\* a stored cart is never used
getCart_cached_never(cachedCart) == FALSE

\* if (cachedCart)
getCart_cached(cachedCart) == cachedCart # <<>>

\* const cachedCart = await redisClient.getClient().get(redisKey)
GetCart_get(p) ==
  LET r == procs[p]
  IN /\ r.pc = "getCart_get"
     /\ procs' = [procs EXCEPT ![p] =
          IF getCart_cached(redis[CartKey(r)])
          THEN AfterGetCart([r EXCEPT !.cart = redis[CartKey(r)][1]])
          ELSE [r EXCEPT !.cart = emptyCart, !.pc = "getCart_setex"]]
     /\ UNCHANGED <<products, orders, redis, ttl, age, reception>>

\* await redisClient.getClient().setex(redisKey, 3600, JSON.stringify(emptyCart))
GetCart_setex(p) ==
  LET r == procs[p]
  IN /\ r.pc = "getCart_setex"
     /\ redis' = [redis EXCEPT ![CartKey(r)] = setex_value(@, emptyCart)]
     /\ ttl' = [ttl EXCEPT ![CartKey(r)] = setex_seconds(ttl[CartKey(r)])]
     /\ age' = [age EXCEPT ![CartKey(r)] = 0]
     /\ procs' = [procs EXCEPT ![p] = AfterGetCart(r)]
     /\ UNCHANGED <<products, orders, reception>>

\* GET /api/cart
StartGetCart(p, identifier) ==
  /\ Admit(p)
  /\ procs' = [procs EXCEPT ![p] =
       [NewRequest("getCart", "getCart_get") EXCEPT !.identifier = identifier]]
  /\ UNCHANGED <<products, orders, redis, ttl, age>>

\* POST /api/cart/add
StartAddToCart(p, identifier, productId, quantity) ==
  /\ Admit(p)
  /\ procs' = [procs EXCEPT ![p] =
       [NewRequest("addToCart", "atc_findById") EXCEPT
          !.identifier = identifier, !.productId = productId,
          !.quantity = quantity]]
  /\ UNCHANGED <<products, orders, redis, ttl, age>>

\* const product = await Product.findById(productId) and the checks after it,
\* up to the await in getCart
AddToCart_findById(p) ==
  LET r == procs[p]
      found == findById(r.productId)
      read == [r EXCEPT !.product = IF found = <<>> THEN NoProduct ELSE found[1]]
  IN /\ r.pc = "atc_findById"
     /\ procs' = [procs EXCEPT ![p] =
          IF addToCart_unavailable(found)
          THEN Throw(read, "Product not found")
          ELSE IF addToCart_insufficient(found[1], r.quantity)
          THEN Throw(read, "Insufficient stock")
          ELSE [read EXCEPT !.pc = "getCart_get"]]
     /\ UNCHANGED <<products, orders, redis, ttl, age, reception>>

\* PUT /api/cart/update
StartUpdateCartItem(p, identifier, productId, quantity) ==
  /\ Admit(p)
  /\ procs' = [procs EXCEPT ![p] =
       [NewRequest("updateCartItem", "getCart_get") EXCEPT
          !.identifier = identifier, !.productId = productId,
          !.quantity = quantity]]
  /\ UNCHANGED <<products, orders, redis, ttl, age>>

\* const product = await Product.findById(productId), the stock check and the
\* new quantity, up to the await of saveCartToRedis
UpdateCartItem_findById(p) ==
  LET r == procs[p]
      found == findById(r.productId)
      read == [r EXCEPT !.product = IF found = <<>> THEN NoProduct ELSE found[1]]
  IN /\ r.pc = "uci_findById"
     /\ procs' = [procs EXCEPT ![p] =
          IF updateCartItem_insufficient(found, r.quantity)
          THEN Throw(read, "Insufficient stock")
          ELSE [read EXCEPT
                  !.cart = calculateCartTotals(
                     [r.cart EXCEPT !.items[r.i].quantity = r.quantity]),
                  !.pc = "saveCart"]]
     /\ UNCHANGED <<products, orders, redis, ttl, age, reception>>

\* DELETE /api/cart/remove/:productId
StartRemoveFromCart(p, identifier, productId) ==
  /\ Admit(p)
  /\ procs' = [procs EXCEPT ![p] =
       [NewRequest("removeFromCart", "getCart_get") EXCEPT
          !.identifier = identifier, !.productId = productId]]
  /\ UNCHANGED <<products, orders, redis, ttl, age>>

\* DELETE /api/cart/clear: clearCart builds the empty cart and saves it
StartClearCart(p, identifier) ==
  /\ Admit(p)
  /\ procs' = [procs EXCEPT ![p] =
       [NewRequest("clearCart", "saveCart") EXCEPT
          !.identifier = identifier, !.cart = emptyCart]]
  /\ UNCHANGED <<products, orders, redis, ttl, age>>

\* POST /api/cart/merge with a session id in the body
StartMergeCart(p, userId, sessionId) ==
  /\ Admit(p)
  /\ procs' = [procs EXCEPT ![p] =
       [NewRequest("mergeCart", "getCart_get") EXCEPT
          !.identifier = userId, !.sessionId = sessionId,
          !.phase = "session"]]
  /\ UNCHANGED <<products, orders, redis, ttl, age>>

\* what the caller does once saveCartToRedis has returned
AfterSaveCart(r) ==
  IF r.op = "mergeCart"
  THEN IF r.phase = "add"
       THEN IF r.i < Len(r.orderItems)
            THEN mergeCart_addItem(r, r.i + 1)
            ELSE [r EXCEPT !.phase = "clear", !.cart = emptyCart,
                           !.pc = "saveCart"]
       ELSE mergeCart_getUpdatedCart(r)
  ELSE Succeed(r)

\* the write of a cart also takes the quantities of its lines from the stock
SaveCartToRedis_reserving(p) ==
  LET r == procs[p]
  IN /\ r.pc = "saveCart"
     /\ redis' = [redis EXCEPT ![CartKey(r)] = setex_value(@, r.cart)]
     /\ ttl' = [ttl EXCEPT ![CartKey(r)] = setex_seconds(ttl[CartKey(r)])]
     /\ age' = [age EXCEPT ![CartKey(r)] = 0]
     /\ procs' = [procs EXCEPT ![p] = AfterSaveCart(r)]
     /\ products' = [productId \in Products |->
                      [products[productId] EXCEPT
                         !.stock = @ - SumSeq([k \in 1..Len(r.cart.items) |->
                                       IF r.cart.items[k].product = productId
                                       THEN r.cart.items[k].quantity ELSE 0])]]
     /\ UNCHANGED <<orders, reception>>

\* CartService.saveCartToRedis:
\* await redisClient.getClient().setex(redisKey, 3600, JSON.stringify(cart))
SaveCartToRedis(p) ==
  LET r == procs[p]
  IN /\ r.pc = "saveCart"
     /\ redis' = [redis EXCEPT ![CartKey(r)] = setex_value(@, r.cart)]
     /\ ttl' = [ttl EXCEPT ![CartKey(r)] = setex_seconds(ttl[CartKey(r)])]
     /\ age' = [age EXCEPT ![CartKey(r)] = 0]
     /\ procs' = [procs EXCEPT ![p] = AfterSaveCart(r)]
     /\ UNCHANGED <<products, orders, reception>>

----------------------------------------------------------------------------
(* OrderService.createOrder *)

\* the check of isActive left out
createOrder_unavailable_unchecked(product) == FALSE

\* !product || !product.isActive
createOrder_unavailable(product) == ~product.isActive

\* product.stock < item.quantity
createOrder_insufficient(product, item) == product.stock < item.quantity

\* the order line with the schema's default quantity instead of the cart's
createOrder_orderItem_defaultQuantity(product, item) ==
  [product |-> item.product,
   quantity |-> 1,
   price |-> finalPrice(product),
   total |-> finalPrice(product) * item.quantity]

\* the order line pushed for a cart line
createOrder_orderItem(product, item) ==
  [product |-> item.product,
   quantity |-> item.quantity,
   price |-> finalPrice(product),
   total |-> finalPrice(product) * item.quantity]

\* POST /api/orders
StartCreateOrder(p, userId) ==
  /\ Admit(p)
  /\ procs' = [procs EXCEPT ![p] =
       [NewRequest("createOrder", "getCart_get") EXCEPT
                    !.identifier = userId]]
  /\ UNCHANGED <<products, orders, redis, ttl, age>>

\* one turn of the validation loop: await Product.findById(item.product) and
\* the checks after it; after the last line, the totals and new Order(...)
CreateOrder_findById(p) ==
  LET r == procs[p]
      item == r.cart.items[r.i]
      product == products[item.product]
      line == createOrder_orderItem(product, item)
  IN /\ r.pc = "co_findById"
     /\ procs' = [procs EXCEPT ![p] =
          IF createOrder_unavailable(product)
          THEN Throw(r, "Product not found")
          ELSE IF createOrder_insufficient(product, item)
          THEN Throw(r, "Insufficient stock")
          ELSE [r EXCEPT !.orderItems = Append(r.orderItems, line),
                         !.subtotal = r.subtotal + line.total,
                         !.i = r.i + 1,
                         !.pc = IF r.i < Len(r.cart.items)
                                THEN "co_findById" ELSE "co_save"]]
     /\ UNCHANGED <<products, orders, redis, ttl, age, reception>>

\* await order.save(): the insert is acknowledged, or it is rejected (the
\* document fails validation, the generated orderNumber is taken) and throws
CreateOrder_save(p) ==
  LET r == procs[p]
  IN /\ r.pc = "co_save"
     /\ \/ /\ orders' = Append(orders, NewOrder(r.identifier, r.orderItems, r.subtotal))
           /\ procs' = [procs EXCEPT ![p] =
                [r EXCEPT !.orderId = Len(orders) + 1,
                          !.i = 1,
                          !.productId = r.orderItems[1].product,
                          !.quantity = 0 - r.orderItems[1].quantity,
                          !.pc = "us_findById"]]
        \/ /\ orders' = orders
           /\ procs' = [procs EXCEPT ![p] = Throw(r, "Order save failed")]
        \/ /\ orders' = orders
           /\ procs' = [procs EXCEPT ![p] = preSave(r)]
     /\ UNCHANGED <<products, redis, ttl, age, reception>>

\* await CartService.clearCart(userId), then the success payload
CreateOrder_clearCart(p) ==
  LET r == procs[p]
  IN /\ r.pc = "co_clearCart"
     /\ redis' = [redis EXCEPT ![r.identifier] = <<emptyCart>>]
     /\ ttl' = [ttl EXCEPT ![r.identifier] = setex_seconds(ttl[r.identifier])]
     /\ age' = [age EXCEPT ![r.identifier] = 0]
     /\ procs' = [procs EXCEPT ![p] = Succeed(r)]
     /\ UNCHANGED <<products, orders, reception>>

----------------------------------------------------------------------------
(* OrderService.cancelOrder *)

\* every status can be cancelled
cancelOrder_notCancellable_never(status) == FALSE

\* only the terminal statuses are refused
cancelOrder_notCancellable_terminalOnly(status) ==
  status \in {"delivered", "cancelled"}

\* only the statuses of an order on its way are refused
cancelOrder_notCancellable_inProgressOnly(status) ==
  status \in {"processing", "shipped"}

\* !['pending', 'confirmed'].includes(order.status)
cancelOrder_notCancellable(status) == status \notin {"pending", "confirmed"}

\* PATCH /api/orders/:id/cancel with a reason in the body
StartCancelOrder(p, orderId, userId, reason) ==
  /\ Admit(p)
  /\ procs' = [procs EXCEPT ![p] =
       [NewRequest("cancelOrder", "ca_findOne") EXCEPT
                    !.identifier = userId, !.orderId = orderId,
                    !.reason = reason]]
  /\ UNCHANGED <<products, orders, redis, ttl, age>>

\* the order is looked up by its id alone
findOne_found_anyUser(orderId, userId) == orderId \in 1..Len(orders)

\* whether Order.findOne({ _id: orderId, user: userId }) finds an order
findOne_found(orderId, userId) ==
  orderId \in 1..Len(orders) /\ orders[orderId].user = userId

\* GET /api/orders/:id
StartGetOrderById(p, orderId, userId) ==
  /\ Admit(p)
  /\ procs' = [procs EXCEPT ![p] =
       [NewRequest("getOrderById", "gob_findOne") EXCEPT
                    !.identifier = userId, !.orderId = orderId]]
  /\ UNCHANGED <<products, orders, redis, ttl, age>>

\* const order = await Order.findOne({ _id: orderId, user: userId }) and the
\* check after it
GetOrderById_findOne(p) ==
  LET r == procs[p]
  IN /\ r.pc = "gob_findOne"
     /\ procs' = [procs EXCEPT ![p] =
          IF ~findOne_found(r.orderId, r.identifier)
          THEN Throw(r, "Order not found")
          ELSE Succeed(r)]
     /\ UNCHANGED <<products, orders, redis, ttl, age, reception>>

\* const order = await Order.findOne({ _id: orderId, user: userId }) and the
\* checks after it, up to the first updateStock
CancelOrder_findOne(p) ==
  LET r == procs[p]
      found == findOne_found(r.orderId, r.identifier)
      order == orders[r.orderId]
  IN /\ r.pc = "ca_findOne"
     /\ procs' = [procs EXCEPT ![p] =
          IF ~found
          THEN Throw(r, "Order not found")
          ELSE IF cancelOrder_notCancellable(order.status)
          THEN Throw(r, "This order cannot be cancelled")
          ELSE [r EXCEPT !.orderItems = order.items,
                         !.i = 1,
                         !.productId = order.items[1].product,
                         !.quantity = order.items[1].quantity,
                         !.pc = "us_findById"]]
     /\ UNCHANGED <<products, orders, redis, ttl, age, reception>>

\* the order is also refunded: its total becomes 0
cancelOrder_cancelled_refunded(order, reason) ==
  [order EXCEPT !.status = "cancelled", !.cancelledAt = TRUE, !.total = 0]

\* order.status = 'cancelled'; order.cancelReason = reason;
\* order.cancelledAt = new Date(), as order.save() stores them: cancelReason
\* is no path of orderSchema (the path is cancelledReason), so the strict
\* schema leaves it out of the document
cancelOrder_cancelled(order, reason) ==
  [order EXCEPT !.status = "cancelled", !.cancelledAt = TRUE]

\* await order.save() of the paths cancelOrder has set
CancelOrder_save(p) ==
  LET r == procs[p]
  IN /\ r.pc = "ca_save"
     /\ \/ /\ orders' = [orders EXCEPT ![r.orderId] = cancelOrder_cancelled(@, r.reason)]
           /\ procs' = [procs EXCEPT ![p] = Succeed(r)]
        \/ /\ orders' = orders
           /\ procs' = [procs EXCEPT ![p] = preSave(r)]
     /\ UNCHANGED <<products, redis, ttl, age, reception>>

----------------------------------------------------------------------------
(* OrderService.updateOrderStatus and orderSchema.methods.updateStatus *)

\* allowedStatuses of OrderController.updateOrderStatus, the enum of the schema
Statuses ==
  {"pending", "confirmed", "processing", "shipped", "delivered", "cancelled"}

\* orderSchema.methods.updateStatus: this.status = newStatus, then
\* this.statusHistory.push[{...}] reads a property of the function push and
\* calls nothing, so statusHistory stays as it is; deliveredAt or cancelledAt
\* is set for these two statuses
updateStatus(order, newStatus, note) ==
  [order EXCEPT
     !.status = newStatus,
     !.deliveredAt = IF newStatus = "delivered" THEN TRUE ELSE @,
     !.cancelledAt = IF newStatus = "cancelled" THEN TRUE ELSE @]

\* PATCH /api/orders/:id/status with a status of allowedStatuses
StartUpdateOrderStatus(p, orderId, status, note) ==
  /\ Admit(p)
  /\ procs' = [procs EXCEPT ![p] =
       [NewRequest("updateOrderStatus", "uos_findById") EXCEPT
                    !.orderId = orderId, !.status = status, !.note = note]]
  /\ UNCHANGED <<products, orders, redis, ttl, age>>

\* const order = await Order.findById(orderId), the check and
\* order.updateStatus(status, note), up to the await of order.save()
UpdateOrderStatus_findById(p) ==
  LET r == procs[p]
  IN /\ r.pc = "uos_findById"
     /\ procs' = [procs EXCEPT ![p] =
          IF r.orderId \notin 1..Len(orders)
          THEN Throw(r, "Order not found")
          ELSE [r EXCEPT !.pc = "uos_save"]]
     /\ UNCHANGED <<products, orders, redis, ttl, age, reception>>

\* await order.save() of the paths updateStatus has set
UpdateOrderStatus_save(p) ==
  LET r == procs[p]
  IN /\ r.pc = "uos_save"
     /\ \/ /\ orders' = [orders EXCEPT ![r.orderId] = updateStatus(@, r.status, r.note)]
           /\ procs' = [procs EXCEPT ![p] = Succeed(r)]
        \/ /\ orders' = orders
           /\ procs' = [procs EXCEPT ![p] = preSave(r)]
     /\ UNCHANGED <<products, redis, ttl, age, reception>>

----------------------------------------------------------------------------
(* Specifications *)

\* the store opens: the catalog, no order, no cart key, no request
Opening ==
  /\ products = Catalog
  /\ orders = <<>>
  /\ redis = [id \in Identifiers |-> <<>>]
  /\ ttl = [id \in Identifiers |-> 0]
  /\ age = [id \in Identifiers |-> 0]
  /\ procs = [p \in Procs |-> Idle]
  /\ requests = 0
  /\ pre = Snapshot

Init == Opening /\ serial = FALSE

\* Concurrent calls of the stock endpoint
NextStock ==
  \E p \in Procs :
    \/ \E productId \in Products, quantity \in (0 - MaxQty)..MaxQty \ {0} :
         StartUpdateStock(p, productId, quantity)
    \/ UpdateStock_findById(p)
    \/ UpdateStock_save(p)
    \/ Return(p)

SpecStock == Init /\ [][NextStock]_vars

\* a cart line as addToCart pushes it
CartLine(productId, quantity) ==
  [product |-> productId,
   price |-> finalPrice(Catalog[productId]),
   quantity |-> quantity]

\* the stored cart with these lines
CartOf(items) == <<calculateCartTotals([emptyCart EXCEPT !.items = items])>>

\* Checkout: the users arrive with carts they filled before
Checkout ==
  /\ products = Catalog
  /\ orders = <<>>
  /\ \E c1 \in {CartOf(<<CartLine("A", 1), CartLine("B", 2)>>), CartOf(<<CartLine("A", 2)>>)},
        c2 \in {CartOf(<<CartLine("B", 1)>>), CartOf(<<CartLine("A", 2)>>), <<>>} :
       redis = [id \in Identifiers |->
                  IF id = "u1" THEN c1 ELSE IF id = "u2" THEN c2 ELSE <<>>]
  /\ ttl = [id \in Identifiers |-> IF redis[id] = <<>> THEN 0 ELSE CartTTL]
  /\ age = [id \in Identifiers |-> 0]
  /\ procs = [p \in Procs |-> Idle]
  /\ requests = 0
  /\ pre = Snapshot

\* the steps of the order handlers
OrderStep(p) ==
  \/ GetCart_get(p)
  \/ GetCart_setex(p)
  \/ CreateOrder_findById(p)
  \/ CreateOrder_save(p)
  \/ CreateOrder_clearCart(p)
  \/ CancelOrder_findOne(p)
  \/ CancelOrder_save(p)
  \/ UpdateStock_findById(p)
  \/ UpdateStock_save(p)
  \/ Return(p)

InitOrder == Checkout /\ serial = FALSE

\* the reasons customers give for a cancellation
Reasons == {"ordered by mistake"}

\* Concurrent checkouts and cancellations while products are withdrawn
NextOrder ==
  \/ \E p \in Procs :
       \/ \E userId \in Users : StartCreateOrder(p, userId)
       \/ \E orderId \in 1..Len(orders), userId \in Users, reason \in Reasons :
            StartCancelOrder(p, orderId, userId, reason)
       \/ OrderStep(p)
  \/ \E productId \in Products : DeleteProduct(productId)

SpecOrder == InitOrder /\ [][NextOrder]_vars

\* orders placed and cancelled over a catalogue that stays as it is; every
\* request in flight keeps being served: Node runs each continuation once the
\* promise it awaits settles
NextCompletion ==
  \E p \in Procs :
    \/ \E userId \in Users : StartCreateOrder(p, userId)
    \/ \E orderId \in 1..Len(orders), userId \in Users, reason \in Reasons :
         StartCancelOrder(p, orderId, userId, reason)
    \/ OrderStep(p)

Fairness == \A p \in Procs : WF_vars(OrderStep(p))

SpecCompletion == InitOrder /\ [][NextCompletion]_vars /\ Fairness

\* The same with the stock endpoint in use
NextStore ==
  \/ NextOrder
  \/ \E p \in Procs, productId \in Products, quantity \in {0 - 1, 1} :
       StartUpdateStock(p, productId, quantity)

SpecStore == InitOrder /\ [][NextStore]_vars

\* The same requests, one at a time
InitSerial == Checkout /\ serial = TRUE

SpecSerial == InitSerial /\ [][NextStore]_vars

\* the notes administrators attach to a status change
Notes == {"checked"}

\* the steps of the status endpoint
UpdateOrderStatusStep(p) ==
  \/ UpdateOrderStatus_findById(p)
  \/ UpdateOrderStatus_save(p)

\* The life of orders: checkouts, cancellations by the customers and status
\* changes by administrators, while the catalogue's prices change and the
\* customers go on shopping
NextLifecycle ==
  \/ \E p \in Procs :
       \/ \E userId \in Users : StartCreateOrder(p, userId)
       \/ \E orderId \in 1..Len(orders), userId \in Users, reason \in Reasons :
            StartCancelOrder(p, orderId, userId, reason)
       \/ \E orderId \in 1..(Len(orders) + 1), status \in Statuses, note \in Notes :
            StartUpdateOrderStatus(p, orderId, status, note)
       \/ \E orderId \in 1..Len(orders), userId \in Users :
            StartGetOrderById(p, orderId, userId)
       \/ StartAddToCart(p, "u1", "B", 1)
       \/ OrderStep(p)
       \/ UpdateOrderStatusStep(p)
       \/ GetOrderById_findOne(p)
       \/ AddToCart_findById(p)
       \/ SaveCartToRedis(p)
  \/ UpdateProduct("A", Catalog["A"].price, 0)

InitLifecycle == Checkout /\ serial = TRUE

SpecLifecycle == InitLifecycle /\ [][NextLifecycle]_vars

\* Every way the stock changes, next to the cart requests of one user:
\* checkouts, cancellations and the administrators' stock endpoint
NextFrame ==
  \E p \in Procs :
    \/ StartGetCart(p, "u1")
    \/ \E productId \in Products : StartAddToCart(p, "u1", productId, 1)
    \/ \E quantity \in {0, 1} : StartUpdateCartItem(p, "u1", "A", quantity)
    \/ StartRemoveFromCart(p, "u1", "A")
    \/ StartClearCart(p, "u1")
    \/ StartMergeCart(p, "u1", "s1")
    \/ StartCreateOrder(p, "u1")
    \/ \E orderId \in 1..Len(orders), reason \in Reasons :
         StartCancelOrder(p, orderId, "u1", reason)
    \/ \E quantity \in {0 - 1, 1} : StartUpdateStock(p, "A", quantity)
    \/ OrderStep(p)
    \/ AddToCart_findById(p)
    \/ UpdateCartItem_findById(p)
    \/ SaveCartToRedis(p)

InitFrame == Checkout /\ serial \in BOOLEAN

SpecFrame == InitFrame /\ [][NextFrame]_vars

\* the identifiers whose carts the cart requests name: a user and the
\* session the user shopped in before logging in
CartIdentifiers == {"u1", "s1"}

\* the steps of the cart handlers
CartStep(p) ==
  \/ GetCart_get(p)
  \/ GetCart_setex(p)
  \/ AddToCart_findById(p)
  \/ UpdateCartItem_findById(p)
  \/ SaveCartToRedis(p)
  \/ Return(p)

\* Concurrent cart requests
NextCart ==
  \E p \in Procs :
    \/ \E identifier \in CartIdentifiers : StartGetCart(p, identifier)
    \/ \E identifier \in CartIdentifiers, productId \in Products, quantity \in 1..MaxQty :
         StartAddToCart(p, identifier, productId, quantity)
    \/ \E identifier \in CartIdentifiers, productId \in Products, quantity \in 0..MaxQty :
         StartUpdateCartItem(p, identifier, productId, quantity)
    \/ \E identifier \in CartIdentifiers, productId \in Products :
         StartRemoveFromCart(p, identifier, productId)
    \/ \E identifier \in CartIdentifiers : StartClearCart(p, identifier)
    \/ \E userId \in CartIdentifiers \cap Users, sessionId \in CartIdentifiers \cap Sessions :
         StartMergeCart(p, userId, sessionId)
    \/ CartStep(p)

SpecCart == Init /\ [][NextCart]_vars

\* the discounted prices an administrator sets (0: no discount)
Discounts == {0}

\* Cart requests one at a time: a visitor fills the cart of a session, the
\* user edits their own cart, also naming an unknown product, and merges the
\* session's cart into it, while an administrator withdraws a product,
\* changes its discount and takes stock out
NextShop ==
  \/ \E p \in Procs :
       \/ \E userId \in CartIdentifiers \cap Users :
            \/ StartGetCart(p, userId)
            \/ \E productId \in Products \cup UnknownProducts, quantity \in 1..MaxQty :
                 StartAddToCart(p, userId, productId, quantity)
            \/ \E productId \in Products, quantity \in 0..MaxQty :
                 StartUpdateCartItem(p, userId, productId, quantity)
            \/ \E productId \in Products : StartRemoveFromCart(p, userId, productId)
            \/ StartClearCart(p, userId)
            \/ \E sessionId \in CartIdentifiers \cap Sessions :
                 StartMergeCart(p, userId, sessionId)
       \/ \E sessionId \in CartIdentifiers \cap Sessions,
             productId \in Products, quantity \in 1..MaxQty :
            StartAddToCart(p, sessionId, productId, quantity)
       \/ StartUpdateStock(p, "A", 0 - 1)
       \/ CartStep(p)
       \/ UpdateStock_findById(p)
       \/ UpdateStock_save(p)
  \/ DeleteProduct("A")
  \/ \E discountPrice \in Discounts :
       UpdateProduct("A", products["A"].price, discountPrice)

\* Requests on the cart of one user while time passes, in runs where they are
\* concurrent and in runs where they are served one at a time
NextExpiry ==
  \/ \E p \in Procs, userId \in CartIdentifiers \cap Users :
       \/ StartGetCart(p, userId)
       \/ \E quantity \in 1..MaxQty : StartAddToCart(p, userId, "A", quantity)
       \/ \E quantity \in 0..MaxQty : StartUpdateCartItem(p, userId, "A", quantity)
       \/ StartRemoveFromCart(p, userId, "A")
       \/ StartClearCart(p, userId)
       \/ CartStep(p)
  \/ Tick

InitExpiry == Opening /\ serial \in BOOLEAN

SpecExpiry == InitExpiry /\ [][NextExpiry]_vars

InitShop == Opening /\ serial = TRUE

SpecShop == InitShop /\ [][NextShop]_vars

\* Merges in which a signed-in user names any cart identifier as the session
\* to merge from, next to requests on the carts themselves
NextIsolation ==
  \E p \in Procs :
    \/ \E userId \in Users :
         \E sessionId \in Identifiers \ {userId} :
           StartMergeCart(p, userId, sessionId)
    \/ \E userId \in Users : StartGetCart(p, userId)
    \/ \E sessionId \in Sessions : StartAddToCart(p, sessionId, "B", 1)
    \/ GetCart_get(p)
    \/ GetCart_setex(p)
    \/ AddToCart_findById(p)
    \/ SaveCartToRedis(p)
    \/ Return(p)

InitIsolation == Checkout /\ serial = TRUE

SpecIsolation == InitIsolation /\ [][NextIsolation]_vars

----------------------------------------------------------------------------
(* Properties *)

\* the quantity of productId in a sequence of cart or order lines
QtyIn(items, productId) ==
  SumSeq([k \in 1..Len(items) |->
            IF items[k].product = productId THEN items[k].quantity ELSE 0])

\* the cart an identifier has in a cart store: the empty cart when there is
\* no key, as getCart answers
CartIn(store, id) == IF store[id] = <<>> THEN emptyCart ELSE store[id][1]

\* whether items is L with quantity added to its line for productId, or, when
\* L has no such line, with one more line for it at the end
Added(L, items, productId, quantity) ==
  IF QtyIn(L, productId) > 0
  THEN /\ Len(items) = Len(L)
       /\ \A k \in 1..Len(L) :
            items[k] = IF L[k].product = productId
                       THEN [L[k] EXCEPT !.quantity = L[k].quantity + quantity]
                       ELSE L[k]
  ELSE /\ Len(items) = Len(L) + 1
       /\ SubSeq(items, 1, Len(L)) = L
       /\ items[Len(items)].product = productId
       /\ items[Len(items)].quantity = quantity

\* the lines of the stored cart of an identifier (none when there is no key)
CartItems(id) == IF redis[id] = <<>> THEN <<>> ELSE redis[id][1].items

\* a line reduced to its product and quantity
Lines(items) ==
  [k \in 1..Len(items) |->
     [product |-> items[k].product, quantity |-> items[k].quantity]]

\* request p is a call of op that returned its success payload
Succeeded(p, op) == procs[p].op = op /\ procs[p].pc = "done"

\* request p is a call of op that threw
Failed(p, op) == procs[p].op = op /\ procs[p].pc = "failed"

\* C1: in every reachable state, under any interleaving of createOrder,
\* cancelOrder and updateStock calls, the stored stock of every product is >= 0
C1_StockNonNegative == \A productId \in Products : products[productId].stock >= 0

\* a decrement was refused on a product whose stock is exhausted
C1_Witness ==
  \E p \in Procs :
    /\ Failed(p, "updateStock")
    /\ procs[p].error = "Insufficient stock"
    /\ products[procs[p].productId].stock = 0

\* C2: two concurrent decrements of one product whose amounts sum to more than
\* the available quantity never both succeed (stated for the first two requests
\* a store receives, so that the available quantity is InitStock)
C2_NeverBothSucceed ==
  \A p, q \in Procs :
    ( /\ p # q
      /\ requests = 2
      /\ Succeeded(p, "updateStock") /\ Succeeded(q, "updateStock")
      /\ procs[p].productId = procs[q].productId
      /\ procs[p].quantity < 0 /\ procs[q].quantity < 0 )
    => 0 - (procs[p].quantity + procs[q].quantity) <= InitStock

\* C3: after concurrent updateStock calls on a product that all report success,
\* the stock is the initial stock plus the sum of their amounts (stated when
\* every request received so far has finished and none has left its slot)
C3_Linearizable ==
  ( /\ Cardinality({p \in Procs : procs[p].op = "updateStock"}) = requests
    /\ \A p \in Procs : procs[p].op = "updateStock" => Finished(p) )
  => \A productId \in Products :
       products[productId].stock =
         InitStock + SumSeq([p \in Procs |->
                               IF Succeeded(p, "updateStock")
                                  /\ procs[p].productId = productId
                               THEN procs[p].quantity ELSE 0])

\* C4: the total quantity of a product in the orders of concurrent successful
\* createOrder calls of two actors never exceeds the stock available before the
\* calls (stated for the first two requests, so that this stock is InitStock)
C4_NoOversell ==
  \A p, q \in Procs :
    ( /\ p # q
      /\ requests = 2
      /\ Succeeded(p, "createOrder") /\ Succeeded(q, "createOrder")
      /\ procs[p].identifier # procs[q].identifier )
    => \A productId \in Products :
         QtyIn(procs[p].orderItems, productId)
           + QtyIn(procs[q].orderItems, productId) <= InitStock

\* C5: if createOrder fails while decrementing stock at line k, the stock of
\* the products of its lines equals its value before the call (stated for two
\* concurrent checkouts and the products the other checkout does not name, whose
\* stock before the call is InitStock)
C5_DecrementsRolledBack ==
  \A p, q \in Procs :
    ( /\ p # q
      /\ requests = 2
      /\ Failed(p, "createOrder") /\ procs[p].orderId # 0
      /\ procs[q].op = "createOrder" )
    => \A k \in 1..Len(procs[p].orderItems) :
         LET productId == procs[p].orderItems[k].product
         IN QtyIn(procs[q].cart.items, productId) = 0
              => products[productId].stock = InitStock

\* C6: if createOrder fails at any step, no Order record created by that call
\* exists in the order store
C6_NoOrderOnFailure ==
  \A p \in Procs :
    Failed(p, "createOrder") => procs[p].orderId \notin 1..Len(orders)

\* C7: from one cart snapshot at most one Order is created, under any
\* interleaving of createOrder calls by one actor (no cart is refilled in these
\* runs, so two orders of one user come from one cart)
C7_OneOrderPerCart ==
  \A m, n \in 1..Len(orders) : m # n => orders[m].user # orders[n].user

\* C8: a successful createOrder on a cart with lines L creates exactly one
\* Order with the product ids and quantities of L, status pending and payment
\* status pending, decreases the stock of each line's product by the line
\* quantity and leaves the actor's cart empty (requests served one at a time)
C8_CreateOrderEffect ==
  \A p \in Procs :
    Succeeded(p, "createOrder") =>
      LET id == procs[p].identifier
          L == pre.redis[id][1].items
          order == orders[Len(orders)]
      IN /\ pre.redis[id] # <<>>
         /\ Len(orders) = Len(pre.orders) + 1
         /\ SubSeq(orders, 1, Len(pre.orders)) = pre.orders
         /\ order.user = id
         /\ Lines(order.items) = Lines(L)
         /\ order.status = "pending"
         /\ order.paymentStatus = "pending"
         /\ \A productId \in Products :
              products[productId].stock =
                pre.products[productId].stock - QtyIn(L, productId)
         /\ redis[id] = <<emptyCart>>

\* a checkout of a two-line cart succeeded
C8_Witness ==
  \E p \in Procs :
    /\ serial
    /\ Succeeded(p, "createOrder")
    /\ Len(pre.redis[procs[p].identifier][1].items) = 2

\* C9: createOrder fails with 'Cart is empty' on a cart without lines, with
\* 'Product not found' on a line whose product is inactive and with
\* 'Insufficient stock' on a line whose quantity exceeds the stock (the first
\* such line decides), and up to there it changes no stock, no order and no
\* cart line
C9_ValidationStep(p) ==
  LET r == procs[p]
      item == r.cart.items[r.i]
      product == products[item.product]
      after == procs'[p]
  IN ( /\ r.op = "createOrder"
       /\ r.pc \in {"getCart_get", "getCart_setex", "co_findById"}
       /\ after # r )
     => /\ products' = products
        /\ orders' = orders
        /\ \A id \in Identifiers : CartItems(id)' = CartItems(id)
        /\ (r.pc \in {"getCart_get", "getCart_setex"} /\ CartItems(r.identifier) = <<>>)
             => \/ after.pc = "failed" /\ after.error = "Cart is empty"
                \/ r.pc = "getCart_get" /\ after.pc = "getCart_setex"
        /\ (r.pc = "co_findById" /\ ~product.isActive)
             => (after.pc = "failed" /\ after.error = "Product not found")
        /\ (r.pc = "co_findById" /\ product.isActive /\ product.stock < item.quantity)
             => (after.pc = "failed" /\ after.error = "Insufficient stock")
        /\ after.pc = "failed" => after.orderId = 0

C9_ValidationFailures == [][\A p \in Procs : C9_ValidationStep(p)]_vars

\* a checkout was refused for a withdrawn product, nothing written
C9_Witness ==
  \E p \in Procs :
    /\ Failed(p, "createOrder")
    /\ procs[p].error = "Product not found"
    /\ orders = <<>>
    /\ \A productId \in Products : products[productId].stock = InitStock

\* C10: after every cart mutation (addToCart, updateCartItem, removeFromCart,
\* clearCart and each step of mergeCart) the stored cart has totalItems = the
\* sum of its line quantities and totalAmount = the sum of quantity x price
C10_CartTotals ==
  \A id \in Identifiers :
    redis[id] # <<>> =>
      LET cart == redis[id][1]
      IN /\ cart.totalItems =
              SumSeq([k \in 1..Len(cart.items) |-> cart.items[k].quantity])
         /\ cart.totalAmount =
              SumSeq([k \in 1..Len(cart.items) |->
                        cart.items[k].quantity * cart.items[k].price])

\* a merge has added to a line of the user's cart
C10_Witness ==
  \E p \in Procs :
    /\ Succeeded(p, "mergeCart")
    /\ redis[procs[p].identifier] # <<>>
    /\ \E k \in 1..Len(CartItems(procs[p].identifier)) :
         CartItems(procs[p].identifier)[k].quantity >= 2
    /\ redis[procs[p].sessionId] = <<emptyCart>>

\* C11: every line of every stored cart has quantity >= 1, under any
\* interleaving of addToCart, updateCartItem, removeFromCart, clearCart and
\* mergeCart requests: a line is removed, never stored with quantity 0
C11_QuantityAtLeastOne ==
  \A id \in Identifiers :
    \A k \in 1..Len(CartItems(id)) : CartItems(id)[k].quantity >= 1

\* an update to quantity 0 succeeded and the stored cart has no line for the
\* product while it keeps another line
C11_Witness ==
  \E p \in Procs :
    /\ Succeeded(p, "updateCartItem")
    /\ procs[p].quantity = 0
    /\ CartItems(procs[p].identifier) # <<>>
    /\ QtyIn(CartItems(procs[p].identifier), procs[p].productId) = 0

\* C12: no two lines of a stored cart name the same product, under any
\* interleaving of the cart requests, mergeCart included
C12_UniqueProducts ==
  \A id \in Identifiers :
    \A j, k \in 1..Len(CartItems(id)) :
      j # k => CartItems(id)[j].product # CartItems(id)[k].product

\* a merge has added the session's quantity to a line the user's cart had
C12_Witness ==
  \E p \in Procs :
    /\ procs[p].op = "mergeCart"
    /\ procs[p].phase = "clear"
    /\ \E k \in 1..Len(CartItems(procs[p].identifier)) :
         CartItems(procs[p].identifier)[k].quantity > procs[p].quantity
         /\ CartItems(procs[p].identifier)[k].product = procs[p].productId

\* C13: a successful addToCart(actor, p, q) has q >= 1 and found the stock of
\* p at least existingQuantity + q; afterwards the cart has one line for p with
\* quantity existingQuantity + q (appended after the others if p was absent)
\* and its other lines are as before (requests served one at a time)
C13_AddToCartEffect ==
  \A p \in Procs :
    Succeeded(p, "addToCart") =>
      LET r == procs[p]
          L == CartIn(pre.redis, r.identifier).items
          items == CartItems(r.identifier)
      IN /\ r.quantity >= 1
         /\ r.product.stock >= QtyIn(L, r.productId) + r.quantity
         /\ Cardinality({k \in 1..Len(items) : items[k].product = r.productId}) = 1
         /\ QtyIn(items, r.productId) = QtyIn(L, r.productId) + r.quantity
         /\ Added(L, items, r.productId, r.quantity)

\* an add to the first of two lines succeeded
C13_Witness ==
  \E p \in Procs :
    /\ Succeeded(p, "addToCart")
    /\ Len(CartItems(procs[p].identifier)) = 2
    /\ CartItems(procs[p].identifier)[1].product = procs[p].productId
    /\ CartItems(procs[p].identifier)[1].quantity > procs[p].quantity

\* C14: addToCart fails with 'Insufficient stock' when it found the stock of p
\* below existingQuantity + q and with 'Product not found' when p is missing or
\* inactive, and succeeds otherwise; when it fails, the lines and totals of the
\* actor's cart are as before the call (requests served one at a time)
C14_AddToCartFailure ==
  \A p \in Procs :
    (procs[p].op = "addToCart" /\ Finished(p)) =>
      LET r == procs[p]
          before == CartIn(pre.redis, r.identifier)
          unavailable == r.productId \notin DOMAIN products \/ ~r.product.isActive
          insufficient == r.product.stock < QtyIn(before.items, r.productId) + r.quantity
      IN /\ Failed(p, "addToCart") <=> (unavailable \/ insufficient)
         /\ Failed(p, "addToCart") =>
              /\ r.error = IF unavailable THEN "Product not found"
                                          ELSE "Insufficient stock"
              /\ CartIn(redis, r.identifier) = before

\* an add to an existing line passed the first stock check and was refused
\* at the second; the line is still in the cart
C14_Witness ==
  \E p \in Procs :
    /\ Failed(p, "addToCart")
    /\ procs[p].error = "Insufficient stock"
    /\ procs[p].quantity <= procs[p].product.stock
    /\ QtyIn(CartItems(procs[p].identifier), procs[p].productId) > 0

\* the price of the line of productId in items
PriceIn(items, productId) ==
  items[CHOOSE k \in 1..Len(items) : items[k].product = productId].price

\* C15: a step leaves the price of every line that stays in a cart as it was,
\* whether the step changes the catalog price, adds to the line or updates
\* its quantity, and a line that enters a cart carries the final (discounted)
\* price of the product document the adding request read
C15_Lines(id) ==
  LET old == CartItems(id)
      new == CartItems(id)'
  IN \A k \in 1..Len(new) :
       IF QtyIn(old, new[k].product) > 0
       THEN new[k].price = PriceIn(old, new[k].product)
       ELSE \E p \in Procs :
              /\ procs[p].pc = "saveCart"
              /\ procs[p].productId = new[k].product
              /\ new[k].price = finalPrice(procs[p].product)

C15_PriceFrozen == [][\A id \in Identifiers : C15_Lines(id)]_vars

\* a second add or an update raised the quantity of a line whose price is no
\* longer the catalog's
C15_Witness ==
  \E p \in Procs :
    /\ procs[p].op \in {"addToCart", "updateCartItem"}
    /\ procs[p].pc = "done"
    /\ \E k \in 1..Len(CartItems(procs[p].identifier)) :
         LET line == CartItems(procs[p].identifier)[k]
         IN /\ line.product = procs[p].productId
            /\ line.quantity > 1
            /\ line.price # finalPrice(products[line.product])

\* L without its lines for productId
Without(L, productId) == SelectSeq(L, LAMBDA line : line.product # productId)

\* C16: updateCartItem(actor, p, q) on a product in the cart removes the line
\* when q <= 0; when q > 0 it succeeds only if the stock it read is >= q and
\* then the line has quantity exactly q, which does not exceed the stock read,
\* also for a product withdrawn from the catalog; the other lines are as before
\* (requests served one at a time)
C16_UpdateCartItemEffect ==
  \A p \in Procs :
    LET r == procs[p]
        L == CartIn(pre.redis, r.identifier).items
        items == CartItems(r.identifier)
    IN (r.op = "updateCartItem" /\ Finished(p) /\ QtyIn(L, r.productId) > 0) =>
         IF r.quantity <= 0
         THEN Succeeded(p, "updateCartItem") /\ items = Without(L, r.productId)
         ELSE /\ Succeeded(p, "updateCartItem") <=> r.product.stock >= r.quantity
              /\ Succeeded(p, "updateCartItem") =>
                   /\ Len(items) = Len(L)
                   /\ \A k \in 1..Len(L) :
                        items[k] = IF L[k].product = r.productId
                                   THEN [L[k] EXCEPT !.quantity = r.quantity]
                                   ELSE L[k]
                   /\ QtyIn(items, r.productId) <= r.product.stock

\* the quantity of a line of a withdrawn product was lowered to 1
C16_Witness ==
  \E p \in Procs :
    /\ Succeeded(p, "updateCartItem")
    /\ procs[p].quantity = 1
    /\ ~products[procs[p].productId].isActive
    /\ QtyIn(CartIn(pre.redis, procs[p].identifier).items, procs[p].productId) > 1
    /\ QtyIn(CartItems(procs[p].identifier), procs[p].productId) = 1

\* C17: updateCartItem on a product that is not in the cart fails with
\* 'Product not found in cart' when quantity > 0, and when quantity <= 0 it
\* succeeds and leaves the lines of the cart as they were (requests served one
\* at a time)
C17_AbsentLine ==
  \A p \in Procs :
    LET r == procs[p]
        L == CartIn(pre.redis, r.identifier).items
    IN (r.op = "updateCartItem" /\ Finished(p) /\ QtyIn(L, r.productId) = 0) =>
         IF r.quantity > 0
         THEN Failed(p, "updateCartItem") /\ r.error = "Product not found in cart"
         ELSE Succeeded(p, "updateCartItem") /\ CartItems(r.identifier) = L

\* C18: removeFromCart always succeeds and leaves the cart without the
\* product; on a product absent from the cart it leaves lines, totalItems and
\* totalAmount as they were, and removing the product again from the cart it
\* stored gives the same cart (requests served one at a time)
C18_RemoveIdempotent ==
  \A p \in Procs :
    LET r == procs[p]
        before == CartIn(pre.redis, r.identifier)
        stored == CartIn(redis, r.identifier)
    IN (r.op = "removeFromCart" /\ Finished(p)) =>
         /\ Succeeded(p, "removeFromCart")
         /\ stored.items = Without(before.items, r.productId)
         /\ QtyIn(before.items, r.productId) = 0 => stored = before
         /\ removeFromCart_afterGetCart([r EXCEPT !.cart = stored]).cart = stored

\* a product that is not in a cart with a line was removed from it
C18_Witness ==
  \E p \in Procs :
    /\ Succeeded(p, "removeFromCart")
    /\ QtyIn(CartIn(pre.redis, procs[p].identifier).items, procs[p].productId) = 0
    /\ CartItems(procs[p].identifier) # <<>>

\* C19: getCart(actor) returns the stored cart when the key exists, leaving
\* the store as it is; when the key does not exist (never written, or a full
\* lifetime has passed since its last write) it returns the empty cart with
\* zero totals and stores it with the full lifetime; no step removes a key
\* before its lifetime has run out and none keeps it after
C19_GetCartStep(p) ==
  LET r == procs[p]
      after == procs'[p]
      id == r.identifier
  IN (r.op = "getCart" /\ after # r /\ after.op = "getCart") =>
       /\ (r.pc = "getCart_get" /\ redis[id] # <<>>) =>
            /\ after.pc = "done"
            /\ after.cart = redis[id][1]
            /\ UNCHANGED <<redis, ttl>>
       /\ (r.pc = "getCart_get" /\ redis[id] = <<>>) =>
            /\ after.pc = "getCart_setex"
            /\ after.cart = emptyCart
       /\ r.pc = "getCart_setex" =>
            /\ after.pc = "done"
            /\ after.cart = emptyCart
            /\ redis'[id] = <<emptyCart>>
            /\ ttl'[id] = CartTTL

C19_GetCart ==
  [][/\ \A p \in Procs : C19_GetCartStep(p)
     /\ \A id \in Identifiers : age'[id] >= CartTTL => redis'[id] = <<>>]_vars

\* the only request in flight, a getCart, arrived when the cart had a line;
\* the key has expired since and getCart has answered and stored the empty cart
C19_Witness ==
  \E p \in Procs :
    /\ serial
    /\ Succeeded(p, "getCart")
    /\ CartIn(pre.redis, procs[p].identifier).items # <<>>
    /\ procs[p].cart = emptyCart
    /\ redis[procs[p].identifier] = <<emptyCart>>
    /\ ttl[procs[p].identifier] = CartTTL

\* C20: the save of every successful addToCart, updateCartItem, removeFromCart
\* and clearCart replaces the whole cart entry by the cart of the request and
\* sets its lifetime to the full CartTTL; a read of an existing cart changes
\* neither the entry nor its lifetime; a key is removed only when a full
\* CartTTL has passed since its last write, and until then it is there
C20_WriteStep(p) ==
  LET r == procs[p]
      after == procs'[p]
      id == r.identifier
  IN /\ ( /\ r.op \in {"addToCart", "updateCartItem", "removeFromCart", "clearCart"}
          /\ r.pc # "done" /\ after.pc = "done" ) =>
          /\ r.pc = "saveCart"
          /\ redis'[id] = <<after.cart>>
          /\ ttl'[id] = CartTTL
          /\ age'[id] = 0
     /\ (r.pc = "getCart_get" /\ after # r /\ redis[id] # <<>>) =>
          UNCHANGED <<redis, ttl, age>>

C20_LifetimeReset ==
  [][/\ \A p \in Procs : C20_WriteStep(p)
     /\ \A id \in Identifiers :
          /\ (redis[id] # <<>> /\ redis'[id] = <<>>) => age'[id] >= CartTTL
          /\ redis'[id] # <<>> => ttl'[id] = CartTTL - age'[id]]_vars

\* a getCart has read a cart with a line, an updateCartItem has stored another
\* cart under the key, and part of a lifetime has passed since that write while
\* the key is still there
C20_Witness ==
  \E p, q \in Procs :
    /\ Succeeded(p, "getCart")
    /\ procs[p].cart.items # <<>>
    /\ Succeeded(q, "updateCartItem")
    /\ procs[q].cart.items # procs[p].cart.items
    /\ redis[procs[q].identifier] = <<procs[q].cart>>
    /\ 0 < age[procs[q].identifier]
    /\ age[procs[q].identifier] < CartTTL

\* C21: under any interleaving of cart requests, every change of a stored
\* cart puts there the one whole cart that a single request writes at that
\* step (the cart it computed, or the empty cart of getCart), and that cart
\* satisfies the totals invariant: no stored cart mixes two writes.
C21_Write(id) ==
  redis'[id] # redis[id] =>
    /\ \E p \in Procs :
         /\ procs[p].pc \in {"saveCart", "getCart_setex"}
         /\ CartKey(procs[p]) = id
         /\ procs'[p] # procs[p]
         /\ redis'[id] = IF procs[p].pc = "saveCart"
                         THEN <<procs[p].cart>> ELSE <<emptyCart>>
    /\ calculateCartTotals(redis'[id][1]) = redis'[id][1]

C21_WholeSnapshots == [][\A id \in Identifiers : C21_Write(id)]_vars

\* Two overlapping requests changed the same cart: the cart of the one that
\* wrote first has been replaced by the different cart of the other.
C21_Witness ==
  \E p, q \in Procs :
    /\ p # q
    /\ Succeeded(p, "addToCart") /\ Succeeded(q, "addToCart")
    /\ procs[p].identifier = procs[q].identifier
    /\ procs[p].cart # procs[q].cart
    /\ Len(procs[p].cart.items) > 0
    /\ redis[procs[q].identifier] = <<procs[q].cart>>
    /\ ~\E k \in 1..Len(procs[q].cart.items) :
          procs[q].cart.items[k].product = procs[p].productId

\* C22: each line of a created order has the catalogue's final price as
\* createOrder read it while building the order (whatever price the cart line
\* froze), total = price x quantity; the order's subtotal is the sum of the
\* line totals, shippingCost is 0 from FreeShippingMin on and ShippingFee
\* below, tax is TaxPercent of the subtotal and total is their sum.
C22_Step(p) ==
  LET r == procs[p]
      after == procs'[p]
  IN /\ (r.op = "createOrder" /\ r.pc = "co_findById" /\ after # r
           /\ after.pc \in {"co_findById", "co_save"}) =>
          LET item == r.cart.items[r.i]
              line == after.orderItems[Len(after.orderItems)]
          IN /\ Len(after.orderItems) = Len(r.orderItems) + 1
             /\ SubSeq(after.orderItems, 1, Len(r.orderItems)) = r.orderItems
             /\ line.product = item.product
             /\ line.quantity = item.quantity
             /\ line.price = finalPrice(products[item.product])
             /\ line.total = line.price * line.quantity
     /\ (r.pc = "co_save" /\ after # r /\ Len(orders') # Len(orders)) =>
          LET order == orders'[Len(orders')]
          IN /\ order.items = r.orderItems
             /\ order.subtotal =
                  SumSeq([k \in 1..Len(order.items) |-> order.items[k].total])
             /\ order.shippingCost =
                  IF order.subtotal >= FreeShippingMin THEN 0 ELSE ShippingFee
             /\ order.tax = (order.subtotal * TaxPercent) \div 100
             /\ order.total = order.subtotal + order.shippingCost + order.tax

C23_Frozen(order) ==
  <<order.user, order.items, order.subtotal, order.shippingCost, order.tax,
    order.total>>

C23_OrdersImmutable ==
  [][ /\ Len(orders') >= Len(orders)
      /\ \A n \in 1..Len(orders) : C23_Frozen(orders'[n]) = C23_Frozen(orders[n]) ]_vars

\* An order was cancelled by its owner (the stock of its first line is back),
\* an administrator then gave it another status, and the catalogue's price of
\* its first line is no longer the line's price.
C23_Witness ==
  \E q \in Procs :
    /\ Succeeded(q, "updateOrderStatus")
    /\ orders[procs[q].orderId].cancelledAt
    /\ orders[procs[q].orderId].status = procs[q].status
    /\ procs[q].status # "cancelled"
    /\ LET line == orders[procs[q].orderId].items[1]
       IN /\ line.price # finalPrice(products[line.product])
          /\ products[line.product].stock = InitStock

\* the order a cancelOrder request names, as it was when the request arrived
C24_Order(p) == pre.orders[procs[p].orderId]

\* request p is a finished cancelOrder of an order of its caller
C24_Cancel(p) ==
  /\ procs[p].op = "cancelOrder"
  /\ Finished(p)
  /\ procs[p].orderId \in 1..Len(pre.orders)
  /\ C24_Order(p).user = procs[p].identifier

\* C24: cancelOrder of an order whose status is neither pending nor confirmed
\* fails with 'This order cannot be cancelled', and then every order and the
\* stock of every product are as before the call (requests served one at a
\* time).
C24_NotCancellable ==
  \A p \in Procs :
    (C24_Cancel(p) /\ C24_Order(p).status \notin {"pending", "confirmed"}) =>
      /\ Failed(p, "cancelOrder")
      /\ procs[p].error = "This order cannot be cancelled"
      /\ orders = pre.orders
      /\ \A productId \in Products :
           products[productId].stock = pre.products[productId].stock

\* the cancellation of a shipped order was refused
C24_Witness ==
  \E p \in Procs :
    /\ C24_Cancel(p)
    /\ Failed(p, "cancelOrder")
    /\ C24_Order(p).status = "shipped"
    /\ orders[procs[p].orderId].status = "shipped"

\* C25: a successful cancelOrder adds to the stock of each product the
\* quantity of the order's line for it, sets the order's status to cancelled
\* and sets cancelledAt; a cancelOrder of an order that is cancelled fails
\* with 'This order cannot be cancelled' and changes no stock (requests served
\* one at a time).
C25_CancelRestores ==
  \A p \in Procs :
    C24_Cancel(p) =>
      /\ Succeeded(p, "cancelOrder") =>
           /\ \A productId \in Products :
                products[productId].stock =
                  pre.products[productId].stock
                    + QtyIn(C24_Order(p).items, productId)
           /\ orders[procs[p].orderId].status = "cancelled"
           /\ orders[procs[p].orderId].cancelledAt
           /\ \A n \in 1..Len(orders) : n # procs[p].orderId => orders[n] = pre.orders[n]
      /\ C24_Order(p).status = "cancelled" =>
           /\ Failed(p, "cancelOrder")
           /\ procs[p].error = "This order cannot be cancelled"
           /\ \A productId \in Products :
                products[productId].stock = pre.products[productId].stock

\* The second cancellation of an order of two lines was refused; the first
\* had put the stock of both products back to what it was before the order.
C25_Witness ==
  \E p \in Procs :
    /\ C24_Cancel(p)
    /\ Failed(p, "cancelOrder")
    /\ C24_Order(p).status = "cancelled"
    /\ C24_Order(p).cancelledAt
    /\ Len(C24_Order(p).items) = 2
    /\ C24_Order(p).items[1].quantity # C24_Order(p).items[2].quantity
    /\ \A productId \in Products : products[productId].stock = InitStock

\* C26: after a successful cancelOrder with a reason, the stored order holds
\* that reason in its cancelledReason field.
C26_ReasonRecorded ==
  \A p \in Procs :
    Succeeded(p, "cancelOrder") =>
      orders[procs[p].orderId].cancelledReason = procs[p].reason

\* the status history of an order after one more entry
C27_Appended(statusHistory, status, note) ==
  Append(statusHistory, [status |-> status, note |-> note])

\* C27: a successful updateOrderStatus(order, newStatus, note) sets the status
\* to newStatus and appends the one entry {status: newStatus, note} to the
\* order's statusHistory, whose earlier entries stay; it sets deliveredAt when
\* newStatus is delivered (requests served one at a time).
C27_StatusHistory ==
  \A p \in Procs :
    Succeeded(p, "updateOrderStatus") =>
      LET order == orders[procs[p].orderId]
          before == pre.orders[procs[p].orderId]
      IN /\ order.status = procs[p].status
         /\ order.statusHistory =
              C27_Appended(before.statusHistory, procs[p].status, procs[p].note)
         /\ procs[p].status = "delivered" => order.deliveredAt

\* the step is the save of an updateOrderStatus request for order n
C28_StatusEndpoint(n) ==
  \E p \in Procs :
    /\ procs[p].op = "updateOrderStatus"
    /\ procs[p].pc = "uos_save"
    /\ procs[p].orderId = n
    /\ procs'[p] # procs[p]
    /\ orders'[n].status = procs[p].status

\* order n becomes cancelled in the step
C28_Cancelled(n) ==
  orders[n].status # "cancelled" /\ orders'[n].status = "cancelled"

\* C28 as stated: in no sequence of cancelOrder and updateOrderStatus calls
\* does an order become cancelled from a status other than pending or
\* confirmed.
C28_CancelledOnlyFromOpen ==
  [][\A n \in 1..Len(orders) :
       C28_Cancelled(n) => orders[n].status \in {"pending", "confirmed"}]_vars

\* C28 amended: cancelOrder cancels an order only from pending or confirmed;
\* an order that becomes cancelled from another status is set so by
\* updateOrderStatus (requests served one at a time).
C28_CancelOrderOnlyFromOpen ==
  [][\A n \in 1..Len(orders) :
       C28_Cancelled(n) =>
         \/ orders[n].status \in {"pending", "confirmed"}
         \/ C28_StatusEndpoint(n)]_vars

\* a customer cancelled an order that an administrator had confirmed
C28_Witness ==
  \E p \in Procs :
    /\ C24_Cancel(p)
    /\ Succeeded(p, "cancelOrder")
    /\ C24_Order(p).status = "confirmed"
    /\ orders[procs[p].orderId].status = "cancelled"

\* the status of order n is delivered or cancelled and the step changes it
C29_Reopened(n) ==
  orders[n].status \in {"delivered", "cancelled"} /\ orders'[n].status # orders[n].status

\* C29 as stated: once the status of an order is delivered or cancelled, no
\* cancelOrder or updateOrderStatus call changes it.
C29_Terminal ==
  [][\A n \in 1..Len(orders) : ~C29_Reopened(n)]_vars

\* C29 amended: no cancelOrder call changes the status of an order that is
\* delivered or cancelled; when such a status changes, updateOrderStatus has
\* set it (requests served one at a time).
C29_TerminalForCancelOrder ==
  [][\A n \in 1..Len(orders) : C29_Reopened(n) => C28_StatusEndpoint(n)]_vars

\* the cancellation of a delivered order was refused and the order is still
\* delivered
C29_Witness ==
  \E p \in Procs :
    /\ C24_Cancel(p)
    /\ Failed(p, "cancelOrder")
    /\ C24_Order(p).status = "delivered"
    /\ orders[procs[p].orderId].status = "delivered"
    /\ orders[procs[p].orderId].deliveredAt

\* C30: a mergeCart that succeeds (every line of the session cart passed the
\* checks of addToCart) leaves in the user's cart, for each product, one line
\* at most, with quantity = the quantity the user's cart had + the quantity
\* the session cart had, and leaves the session cart without lines (requests
\* served one at a time).
C30_MergeCart ==
  \A p \in Procs :
    Succeeded(p, "mergeCart") =>
      LET target == CartIn(pre.redis, procs[p].identifier).items
          source == CartIn(pre.redis, procs[p].sessionId).items
          items == CartItems(procs[p].identifier)
      IN /\ \A productId \in Products :
              /\ QtyIn(items, productId) =
                   QtyIn(target, productId) + QtyIn(source, productId)
              /\ Cardinality({k \in 1..Len(items) : items[k].product = productId}) <= 1
         /\ CartItems(procs[p].sessionId) = <<>>
         /\ procs[p].cart = CartIn(redis, procs[p].identifier)

\* a merge added the session's line to the line the user's cart had for the
\* same product
C30_Witness ==
  \E p \in Procs :
    /\ Succeeded(p, "mergeCart")
    /\ \E productId \in Products :
         /\ QtyIn(CartIn(pre.redis, procs[p].identifier).items, productId) > 0
         /\ QtyIn(CartIn(pre.redis, procs[p].sessionId).items, productId) > 0
         /\ QtyIn(CartItems(procs[p].identifier), productId) = InitStock
    /\ redis[procs[p].sessionId] = <<emptyCart>>

\* the quantity of productId a merge adds to the target under the policy of
\* skipping the lines that fail the stock check
C31_Merged(target, source, productId) ==
  IF QtyIn(target, productId) + QtyIn(source, productId) <= products[productId].stock
  THEN QtyIn(source, productId) ELSE 0

\* C31: a mergeCart of a session cart whose products are all on sale
\* completes even when a line fails the stock check: that line is skipped,
\* every line that passes is added to the user's cart and the session cart is
\* cleared (requests served one at a time).
C31_MergeContinues ==
  \A p \in Procs :
    LET target == CartIn(pre.redis, procs[p].identifier).items
        source == CartIn(pre.redis, procs[p].sessionId).items
    IN ( /\ procs[p].op = "mergeCart"
         /\ Finished(p)
         /\ \A productId \in Products : products[productId].isActive ) =>
         /\ Succeeded(p, "mergeCart")
         /\ CartItems(procs[p].sessionId) = <<>>
         /\ \A productId \in Products :
              QtyIn(CartItems(procs[p].identifier), productId) =
                QtyIn(target, productId) + C31_Merged(target, source, productId)

\* C37: for every product, the quantity in the session cart plus the quantity
\* in the user's cart is the same after a mergeCart as before it, whether the
\* merge succeeds or stops on a failing line (requests served one at a time).
C37_MergeConserves ==
  \A p \in Procs :
    (procs[p].op = "mergeCart" /\ Finished(p)) =>
      \A productId \in Products :
        QtyIn(CartItems(procs[p].identifier), productId)
          + QtyIn(CartItems(procs[p].sessionId), productId)
        = QtyIn(CartIn(pre.redis, procs[p].identifier).items, productId)
          + QtyIn(CartIn(pre.redis, procs[p].sessionId).items, productId)

\* the cart operations
C32_CartOps ==
  {"getCart", "addToCart", "updateCartItem", "removeFromCart", "clearCart",
   "mergeCart"}

\* the step is taken by a request of one of ops (its arrival and the sending
\* of its response included)
C32_StepOf(ops) ==
  \E p \in Procs :
    /\ procs'[p] # procs[p]
    /\ (IF procs[p].op = "idle" THEN procs'[p].op ELSE procs[p].op) \in ops

\* the stock of some product changes in the step
C32_StockChanges ==
  \E productId \in Products : products'[productId].stock # products[productId].stock

\* no step of a cart operation changes a stock quantity or an order
C32_CartFrame ==
  C32_StepOf(C32_CartOps) => (~C32_StockChanges /\ orders' = orders)

C33_NotOwner(p) ==
  /\ procs[p].op \in {"cancelOrder", "getOrderById"}
  /\ Finished(p)
  /\ procs[p].orderId \in 1..Len(pre.orders)
  /\ pre.orders[procs[p].orderId].user # procs[p].identifier

\* C33: cancelOrder and getOrderById called by a user who does not own the
\* order fail with 'Order not found' and leave every order and every stock
\* quantity as they were (requests served one at a time).
C33_ActorMismatch ==
  \A p \in Procs :
    C33_NotOwner(p) =>
      /\ procs[p].pc = "failed"
      /\ procs[p].error = "Order not found"
      /\ orders = pre.orders
      /\ \A productId \in Products :
           products[productId].stock = pre.products[productId].stock

\* a user tried to cancel a pending order of another user and was refused
C33_Witness ==
  \E p \in Procs :
    /\ C33_NotOwner(p)
    /\ Failed(p, "cancelOrder")
    /\ orders[procs[p].orderId].status = "pending"
    /\ products[orders[procs[p].orderId].items[1].product].stock < InitStock

\* the units of productId in the orders that are not cancelled
C34_Sold(productId) ==
  SumSeq([n \in 1..Len(orders) |->
            IF orders[n].status = "cancelled" THEN 0
            ELSE QtyIn(orders[n].items, productId)])

\* C34: whenever no createOrder and no cancelOrder is in progress, the stock
\* of every product plus its units in the orders that are not cancelled is
\* the product's initial stock, in runs of createOrder, cancelOrder and
\* updateOrderStatus without administrative stock edits.
C34_StockConservation ==
  (\A p \in Procs :
     procs[p].op \in {"createOrder", "cancelOrder"} => Finished(p))
  => \A productId \in Products :
       products[productId].stock + C34_Sold(productId) = InitStock

\* C35: the stock of an order's products is restored at most once over the
\* order's life: as every successful cancelOrder adds each line's quantity to
\* the stock, no two cancelOrder calls on one order both succeed, also when
\* they overlap.
C35_RestoredOnce ==
  \A p, q \in Procs :
    ( /\ p # q
      /\ Succeeded(p, "cancelOrder") /\ Succeeded(q, "cancelOrder") )
    => procs[p].orderId # procs[q].orderId

\* C36: when a createOrder and an addToCart of the same user have both
\* succeeded, however they overlapped, the units of the added product that
\* the addToCart stored are in the created order or still in the user's cart
\* (stated for the first two requests).
C36_NoLostLine ==
  \A p, q \in Procs :
    ( /\ p # q
      /\ requests = 2
      /\ Succeeded(p, "createOrder") /\ Succeeded(q, "addToCart")
      /\ procs[p].identifier = procs[q].identifier )
    => QtyIn(orders[procs[p].orderId].items, procs[q].productId)
         + QtyIn(CartItems(procs[q].identifier), procs[q].productId)
       >= QtyIn(procs[q].cart.items, procs[q].productId)

\* C38: the lines of a user's cart change only in steps of requests made by
\* that user; no request of another user, whatever identifier it names, reads
\* them into its own cart, alters them or empties the cart.
C38_CartIsolation ==
  [][\A id \in Users :
       CartItems(id)' # CartItems(id) =>
         \E p \in Procs : procs'[p] # procs[p] /\ procs[p].identifier = id]_vars

\* C39: every createOrder invocation eventually completes, with the persisted
\* order or with a failure: the order save step, pre-save hook included,
\* always finishes
C39_CreateOrderCompletes ==
  \A p \in Procs : (procs[p].op = "createOrder") ~> Finished(p)

====
